---------------------------- MODULE Spec2Model ----------------------------
(***************************************************************************)
(* A model of podcast-seo-automation: the timestamp parser and the text    *)
(* normalisers of src/src/utils.js, the tag synthesiser and the Markdown   *)
(* renderer of src/src/generator.js, and the command-line run of           *)
(* src/bin/searchers-episode.js.                                           *)
(*                                                                         *)
(* JavaScript strings are TLA+ strings; Char(s, i) is the i-th character   *)
(* (1-based).                                                              *)
(* A module holds ASCII only, so six characters stand for the non-ASCII    *)
(* ones the code names: EmDash for U+2014, EnDash for U+2013, Ellipsis for *)
(* U+2026, MidDot for U+00B7, Bullet for U+2022, and Emoji for a glyph of  *)
(* the ranges stripEmoji removes (the glyphs of the section headings too). *)
(* The parser of the module does not take a grave accent in a string:      *)
(* Backtick stands for it.                                                 *)
(***************************************************************************)
EXTENDS Integers, Sequences, FiniteSets, TLC

VARIABLES
    args,      \* the arguments of the library call under study
    ret,       \* what the call returned (NoValue before it returns)
    lpc,       \* position of the library call: "idle", "call", "returned"
    opts,      \* the command line as commander parsed it (program.opts())
    env,       \* the file system the run finds
    pc,        \* the position of main
    locals,    \* main's local variables
    prompted,  \* whether the SEO prompt has been shown
    generated, \* the number of calls of generateEpisodeMarkdown
    stdout,    \* what was written to standard output, in order
    stderr,    \* what was written to standard error, in order
    files,     \* the files written
    dirs,      \* the directories created
    exitCode   \* the exit status; NotExited while the process runs

libvars == <<args, ret, lpc>>

clivars == <<opts, env, pc, locals, prompted, generated, stdout, stderr,
             files, dirs, exitCode>>

vars == <<libvars, clivars>>

---------------------------------------------------------------------------
(* Bounds of the model.                                                    *)

MaxLines == 3

MaxGuests == 3

MaxHosts == 2

---------------------------------------------------------------------------
(* Characters and strings.                                                 *)

EmDash == "~"
EnDash == "="
Emoji == "^"
Ellipsis == "@"
MidDot == "%"
Bullet == "$"
Backtick == "<"

Char(s, i) == SubSeq(s, i, i)

From(s, i) == SubSeq(s, i, Len(s))

Lower == "abcdefghijklmnopqrstuvwxyz"
Upper == "ABCDEFGHIJKLMNOPQRSTUVWXYZ"
Digits == "0123456789"

IsIn(c, alphabet) == \E i \in 1..Len(alphabet) : Char(alphabet, i) = c

PosIn(c, alphabet) == CHOOSE i \in 1..Len(alphabet) : Char(alphabet, i) = c

IsDigit(c) == IsIn(c, Digits)

\* \s of a JavaScript regular expression, and what String.prototype.trim removes.
IsSpace(c) == c \in {" ", "\t", "\n", "\r"}

\* \w of a JavaScript regular expression.
IsWordChar(c) == IsIn(c, Lower) \/ IsIn(c, Upper) \/ IsDigit(c) \/ c = "_"

LowerChar(c) == IF IsIn(c, Upper) THEN Char(Lower, PosIn(c, Upper)) ELSE c

UpperChar(c) == IF IsIn(c, Lower) THEN Char(Upper, PosIn(c, Lower)) ELSE c

\* The pieces f[lo], ..., f[hi] in one string (halving keeps the evaluation
\* shallow on long strings).
RECURSIVE Concat(_, _, _)
Concat(f, lo, hi) ==
    IF lo > hi THEN ""
    ELSE IF lo = hi THEN f[lo]
    ELSE Concat(f, lo, (lo + hi) \div 2) \o Concat(f, ((lo + hi) \div 2) + 1, hi)

toLowerCase(s) ==
    Concat([i \in 1..Len(s) |-> LowerChar(Char(s, i))], 1, Len(s))

toUpperCase(s) ==
    Concat([i \in 1..Len(s) |-> UpperChar(Char(s, i))], 1, Len(s))

RECURSIVE trimStart(_)
trimStart(s) ==
    IF s # "" /\ IsSpace(Char(s, 1)) THEN trimStart(From(s, 2)) ELSE s

RECURSIVE trimEnd(_)
trimEnd(s) ==
    IF s # "" /\ IsSpace(Char(s, Len(s)))
    THEN trimEnd(SubSeq(s, 1, Len(s) - 1))
    ELSE s

trim(s) == trimEnd(trimStart(s))

startsWith(s, p) == Len(s) >= Len(p) /\ SubSeq(s, 1, Len(p)) = p

\* String.prototype.indexOf, 1-based; 0 when sub does not occur.
indexOf(s, sub) ==
    LET hits == {i \in 1..(Len(s) - Len(sub) + 1) :
                    SubSeq(s, i, i + Len(sub) - 1) = sub}
    IN IF sub = "" THEN 1
       ELSE IF hits = {} THEN 0
       ELSE CHOOSE i \in hits : \A j \in hits : i <= j

includes(s, sub) == indexOf(s, sub) > 0

\* The length of the run of whitespace that starts s.
RECURSIVE SpaceRun(_)
SpaceRun(s) ==
    IF s # "" /\ IsSpace(Char(s, 1)) THEN 1 + SpaceRun(From(s, 2)) ELSE 0

\* s.replace(/\s+/g, with): every run of whitespace becomes with.
ReplaceSpaceRuns(s, with) ==
    Concat([i \in 1..Len(s) |->
               IF ~IsSpace(Char(s, i)) THEN Char(s, i)
               ELSE IF i > 1 /\ IsSpace(Char(s, i - 1)) THEN ""
               ELSE with], 1, Len(s))

\* s.replace(/\s{2,}/g, " "): a run of two or more whitespace characters
\* becomes one space; a single whitespace character is kept as it is.
CollapseLongSpaceRuns(s) ==
    Concat([i \in 1..Len(s) |->
               IF ~IsSpace(Char(s, i)) THEN Char(s, i)
               ELSE IF i > 1 /\ IsSpace(Char(s, i - 1)) THEN ""
               ELSE IF i < Len(s) /\ IsSpace(Char(s, i + 1)) THEN " "
               ELSE Char(s, i)], 1, Len(s))

\* The characters of s that are not in the set drop.
RemoveChars(s, drop) ==
    Concat([i \in 1..Len(s) |->
               IF Char(s, i) \in drop THEN "" ELSE Char(s, i)], 1, Len(s))

\* String.prototype.split on a one-character separator.
RECURSIVE SplitOn(_, _)
SplitOn(s, sep) ==
    LET i == indexOf(s, sep)
    IN IF i = 0 THEN <<s>>
       ELSE <<SubSeq(s, 1, i - 1)>> \o SplitOn(From(s, i + 1), sep)

\* s.split(/\r?\n/): a line ends at a line feed, and a carriage return
\* right before that line feed belongs to the separator.
RECURSIVE SplitLines(_)
SplitLines(s) ==
    LET i == indexOf(s, "\n")
        e == IF i > 1 /\ Char(s, i - 1) = "\r" THEN i - 2 ELSE i - 1
    IN IF i = 0 THEN <<s>>
       ELSE <<SubSeq(s, 1, e)>> \o SplitLines(From(s, i + 1))

\* Array.prototype.join.
RECURSIVE Join(_, _)
Join(parts, sep) ==
    IF parts = <<>> THEN ""
    ELSE IF Len(parts) = 1 THEN parts[1]
    ELSE parts[1] \o sep \o Join(Tail(parts), sep)

\* Array.prototype.filter(Boolean) on strings: the empty string is falsy.
RECURSIVE FilterNonEmpty(_)
FilterNonEmpty(parts) ==
    IF parts = <<>> THEN <<>>
    ELSE (IF parts[1] = "" THEN <<>> ELSE <<parts[1]>>)
         \o FilterNonEmpty(Tail(parts))

\* Number(x) for a string of decimal digits.
RECURSIVE DigitsValue(_)
DigitsValue(ds) ==
    IF ds = "" THEN 0
    ELSE 10 * DigitsValue(SubSeq(ds, 1, Len(ds) - 1))
         + (PosIn(Char(ds, Len(ds)), Digits) - 1)

\* String(n) for a natural number.
RECURSIVE NumberToString(_)
NumberToString(n) ==
    IF n < 10 THEN Char(Digits, n + 1)
    ELSE NumberToString(n \div 10) \o Char(Digits, (n % 10) + 1)

\* String(n).padStart(2, "0")
padStart2(n) ==
    IF Len(NumberToString(n)) < 2
    THEN "0" \o NumberToString(n)
    ELSE NumberToString(n)

---------------------------------------------------------------------------
(* Timestamp parsing (src/src/utils.js).                                   *)

DigitsAt(s, i, n) ==
    i + n - 1 <= Len(s) /\ \A k \in i..(i + n - 1) : IsDigit(Char(s, k))

ColonAt(s, i) == i <= Len(s) /\ Char(s, i) = ":"

\* (?<h>\d{1,2}):(?<m>\d{2}):(?<s>\d{2}) at position i, the hour hl digits long.
HMSAt(s, i, hl) ==
    /\ DigitsAt(s, i, hl)
    /\ ColonAt(s, i + hl)
    /\ DigitsAt(s, i + hl + 1, 2)
    /\ ColonAt(s, i + hl + 3)
    /\ DigitsAt(s, i + hl + 4, 2)

\* (?<m2>\d{1,2}):(?<s2>\d{2}) at position i, the minutes ml digits long.
MSAt(s, i, ml) ==
    /\ DigitsAt(s, i, ml)
    /\ ColonAt(s, i + ml)
    /\ DigitsAt(s, i + ml + 1, 2)

NoMatch == [found |-> FALSE, index |-> 0, text |-> "",
            h |-> "", m |-> "", s |-> "", m2 |-> "", s2 |-> "",
            hasH |-> FALSE]

\* The match of TIME_FINDER that starts at position i: the first alternative
\* with the greedy \d{1,2} (two digits, then one), then the second.  A group
\* that took no part in the match is undefined: hasH tells whether <h> did.
MatchAt(s, i) ==
    LET hms(hl) == [found |-> TRUE, index |-> i,
                    text |-> SubSeq(s, i, i + hl + 5),
                    h |-> SubSeq(s, i, i + hl - 1),
                    m |-> SubSeq(s, i + hl + 1, i + hl + 2),
                    s |-> SubSeq(s, i + hl + 4, i + hl + 5),
                    m2 |-> "", s2 |-> "", hasH |-> TRUE]
        ms(ml) == [found |-> TRUE, index |-> i,
                   text |-> SubSeq(s, i, i + ml + 2),
                   h |-> "", m |-> "", s |-> "",
                   m2 |-> SubSeq(s, i, i + ml - 1),
                   s2 |-> SubSeq(s, i + ml + 1, i + ml + 2),
                   hasH |-> FALSE]
    IN IF HMSAt(s, i, 2) THEN hms(2)
       ELSE IF HMSAt(s, i, 1) THEN hms(1)
       ELSE IF MSAt(s, i, 2) THEN ms(2)
       ELSE IF MSAt(s, i, 1) THEN ms(1)
       ELSE NoMatch

\* line.match(TIME_FINDER): the leftmost match.
TIME_FINDER(s) ==
    LET starts == {i \in 1..Len(s) : MatchAt(s, i).found}
    IN IF starts = {} THEN NoMatch
       ELSE MatchAt(s, CHOOSE i \in starts : \A j \in starts : i <= j)

toInt(x) == DigitsValue(x)

extractHMS(match) ==
    IF match.hasH
    THEN [h |-> toInt(match.h), m |-> toInt(match.m), s |-> toInt(match.s)]
    ELSE [h |-> 0, m |-> toInt(match.m2), s |-> toInt(match.s2)]

\* A formatClock that never renders the hour.
formatClockWithoutHour(h, m, s) == NumberToString(m) \o ":" \o padStart2(s)

formatClock(h, m, s) ==
    IF h > 0
    THEN NumberToString(h) \o ":" \o padStart2(m) \o ":" \o padStart2(s)
    ELSE NumberToString(m) \o ":" \o padStart2(s)

\* The glyphs of the ranges in stripEmoji: U+2700-27BF, U+FE0F, U+E000-F8FF,
\* and the surrogate pairs led by D83C, D83D and D83E.
EmojiChars == {Emoji}

stripEmoji(s) == trim(RemoveChars(s, EmojiChars))

Acronyms == {"nbl1", "nba", "wnbl", "afl", "mma", "ai", "phd", "api", "ui",
             "ux", "sql", "http", "https"}

\* The word (the maximal run of word characters) that position i of s is in.
WordAt(s, i) ==
    LET isStart(j) == j = 1 \/ ~IsWordChar(Char(s, j - 1))
        isEnd(j) == j = Len(s) \/ ~IsWordChar(Char(s, j + 1))
        a == CHOOSE j \in 1..i :
                 isStart(j) /\ \A k \in j..i : IsWordChar(Char(s, k))
        b == CHOOSE j \in i..Len(s) :
                 isEnd(j) /\ \A k \in i..j : IsWordChar(Char(s, k))
    IN SubSeq(s, a, b)

\* sentence.replace(/\b(nbl1|nba|...)\b/gi, m => m.toUpperCase()): a whole
\* word of the list is upper-cased.
UpperAcronyms(s) ==
    Concat([i \in 1..Len(s) |->
               IF IsWordChar(Char(s, i)) /\ toLowerCase(WordAt(s, i)) \in Acronyms
               THEN UpperChar(Char(s, i))
               ELSE Char(s, i)], 1, Len(s))

toSentenceCasePreserveAcronyms(s) ==
    LET trimmed == trim(s)
        lower == toLowerCase(trimmed)
        sentence == UpperChar(Char(lower, 1)) \o From(lower, 2)
    IN IF trimmed = "" THEN "" ELSE UpperAcronyms(sentence)

\* /^[)\]\-:|>.\s]+/ with the en dash and the em dash in the class.
LeadingSeparators == {")", "]", "-", ":", EnDash, EmDash, "|", ">", "."}

RECURSIVE StripLeadingSeparators(_)
StripLeadingSeparators(s) ==
    IF s # "" /\ (Char(s, 1) \in LeadingSeparators \/ IsSpace(Char(s, 1)))
    THEN StripLeadingSeparators(From(s, 2))
    ELSE s

\* The length of the run of characters of set that ends s.
RECURSIVE TailRun(_, _)
TailRun(s, set) ==
    IF s # "" /\ Char(s, Len(s)) \in set
    THEN 1 + TailRun(SubSeq(s, 1, Len(s) - 1), set)
    ELSE 0

DropTail(s, n) == SubSeq(s, 1, Len(s) - n)

Spaces == {" ", "\t", "\n", "\r"}

\* s.replace(/\s*[:;,.!?-]+\s*$/g, ""): trailing whitespace, the run of
\* punctuation before it (at least one character) and the whitespace before
\* that run are removed; without such a run s is unchanged.
StripTrailingPunctuation(s) ==
    LET a == DropTail(s, TailRun(s, Spaces))
        b == DropTail(a, TailRun(a, {":", ";", ",", ".", "!", "?", "-"}))
        c == DropTail(b, TailRun(b, Spaces))
    IN IF a = b THEN s ELSE c

\* s.replace(/\s?[-]\s*$/g, "") with the en dash and the em dash in the class:
\* trailing whitespace, ONE dash before it
\* and at most one whitespace character before the dash are removed.
StripTrailingDash(s) ==
    LET a == DropTail(s, TailRun(s, Spaces))
        b == IF a # "" /\ Char(a, Len(a)) \in {EmDash, EnDash, "-"}
             THEN DropTail(a, 1) ELSE a
        c == IF b # "" /\ IsSpace(Char(b, Len(b))) THEN DropTail(b, 1) ELSE b
    IN IF a = b THEN s ELSE c

\* A tidyLabel without the final default: return s.
tidyLabelWithoutDefault(s) ==
    LET s1 == StripTrailingPunctuation(CollapseLongSpaceRuns(s))
        s2 == StripTrailingDash(s1)
    IN IF s = "" THEN "Segment"
       ELSE trim(toSentenceCasePreserveAcronyms(s2))

tidyLabel(s) ==
    LET s1 == StripTrailingPunctuation(CollapseLongSpaceRuns(s))
        s2 == StripTrailingDash(s1)
        s3 == trim(toSentenceCasePreserveAcronyms(s2))
    IN IF s = "" THEN "Segment"
       ELSE IF s3 = "" THEN "Segment" ELSE s3

\* The candidate lines of plain text: split(/\r?\n/).map(trim).filter(Boolean)
PlainLines(timestampsRaw) ==
    LET parts == SplitLines(timestampsRaw)
    IN FilterNonEmpty([i \in 1..Len(parts) |-> trim(parts[i])])

RECURSIVE FilterTimed(_)
FilterTimed(parts) ==
    IF parts = <<>> THEN <<>>
    ELSE (IF TIME_FINDER(parts[1]).found THEN <<parts[1]>> ELSE <<>>)
         \o FilterTimed(Tail(parts))

\* The candidate lines of RTF: split on the backslash, braces removed,
\* trimmed, and only the fragments that hold a time kept.
RtfLines(timestampsRaw) ==
    LET parts == SplitOn(timestampsRaw, "\\")
    IN FilterTimed([i \in 1..Len(parts) |->
                        trim(RemoveChars(parts[i], {"{", "}"}))])

CandidateLines(timestampsRaw) ==
    IF startsWith(trim(timestampsRaw), "{\\rtf")
    THEN RtfLines(timestampsRaw)
    ELSE PlainLines(timestampsRaw)

\* The body of the loop for one candidate line: the entry it pushes, in a
\* sequence of one, or nothing when the line holds no time.
ParseLine(raw, keepEmoji) ==
    LET line == ReplaceSpaceRuns(raw, " ")
        m == TIME_FINDER(line)
        hms == extractHMS(m)
        seconds == hms.h * 3600 + hms.m * 60 + hms.s
        time == formatClock(hms.h, hms.m, hms.s)
        idx == indexOf(line, m.text)
        label0 == From(line, idx + Len(m.text))
        label1 == StripLeadingSeparators(label0)
        label2 == IF keepEmoji THEN label1 ELSE stripEmoji(label1)
    IN IF ~m.found THEN <<>>
       ELSE <<[time |-> time, seconds |-> seconds, label |-> tidyLabel(label2)]>>

RECURSIVE ParseLines(_, _)
ParseLines(lines, keepEmoji) ==
    IF lines = <<>> THEN <<>>
    ELSE ParseLine(lines[1], keepEmoji) \o ParseLines(Tail(lines), keepEmoji)

\* A filter that drops an entry whose label occurred anywhere before it.
KeepsEntryIfLabelIsNew(arr, i) ==
    \A j \in 1..(i - 1) : toLowerCase(arr[i].label) # toLowerCase(arr[j].label)

\* items.filter((it, i, arr) => i === 0 ||
\*     it.label.toLowerCase() !== arr[i - 1].label.toLowerCase())
KeepsEntry(arr, i) ==
    i = 1 \/ toLowerCase(arr[i].label) # toLowerCase(arr[i - 1].label)

RECURSIVE FilterFrom(_, _)
FilterFrom(arr, i) ==
    IF i > Len(arr) THEN <<>>
    ELSE (IF KeepsEntry(arr, i) THEN <<arr[i]>> ELSE <<>>)
         \o FilterFrom(arr, i + 1)

\* A parseTimestamps that collapses whatever the option says.
parseTimestampsAlwaysCollapsing(timestampsRaw, keepEmoji, collapseConsecutiveDuplicateLabels) ==
    FilterFrom(ParseLines(CandidateLines(timestampsRaw), keepEmoji), 1)

parseTimestamps(timestampsRaw, keepEmoji, collapseConsecutiveDuplicateLabels) ==
    LET items == ParseLines(CandidateLines(timestampsRaw), keepEmoji)
    IN IF collapseConsecutiveDuplicateLabels THEN FilterFrom(items, 1) ELSE items

---------------------------------------------------------------------------
(* Calls of parseTimestamps on bounded inputs.                             *)

NoValue == [kind |-> "none"]

Idle == [fn |-> "none"]

NotExited == -1

\* The command-line run at rest, while a library call is studied on its own.
CliAtRest ==
    /\ opts = NoValue
    /\ env = NoValue
    /\ pc = "none"
    /\ locals = NoValue
    /\ prompted = FALSE
    /\ generated = 0
    /\ stdout = <<>>
    /\ stderr = <<>>
    /\ files = {}
    /\ dirs = {}
    /\ exitCode = NotExited

\* What may precede the time on a line, the time tokens, and what may follow.
\* One-line inputs: a decoration, a time token and the text after it.
TimedLines ==
    {p \o c \o r :
        p \in {"", "(", "- ", "[1] "},
        c \in {"0:05", "12:34", "1:02:03", "00:02:03", "99:99", "10:00:59"},
        r \in {"", " Intro", ") INTRO", "] the nba  finals!!", " : note;",
               " ^", " -", " !~!", " ~ ", "|> x ~", " ^ keep ^ emoji",
               " 2:30 again", " ?", ": . :"}}

UntimedLines == {"", "   ", "Intro", "1:5", "12345", ":30", "a 1: 23"}

\* Inputs of 2..MaxLines lines, joined by either line break.
MultiLineTexts ==
    {Join(ls, br) :
        ls \in UNION {[1..n -> {"0:00 Intro", "(0:10) INTRO", "1:00 Music",
                                "no time here", " "}] : n \in 2..MaxLines},
        br \in {"\n", "\r\n"}}

RtfTexts ==
    {"{\\rtf1\\ansi 0:05 Intro\\par 1:00 Music}",
     " {\\rtf1 no time}",
     "{\\rtf1\\f0 (0:05) intro\\\n0:10 INTRO\\\n}"}

ParseTexts == TimedLines \cup UntimedLines \cup MultiLineTexts \cup RtfTexts

InitParse ==
    /\ args \in [fn : {"parseTimestamps"},
                 timestampsRaw : ParseTexts,
                 keepEmoji : BOOLEAN,
                 collapseConsecutiveDuplicateLabels : BOOLEAN]
    /\ ret = NoValue
    /\ lpc = "call"
    /\ CliAtRest

CallParseTimestamps ==
    /\ lpc = "call"
    /\ args.fn = "parseTimestamps"
    /\ ret' = [kind |-> "entries",
               items |-> parseTimestamps(args.timestampsRaw, args.keepEmoji,
                                         args.collapseConsecutiveDuplicateLabels)]
    /\ lpc' = "returned"
    /\ UNCHANGED <<args, clivars>>

SpecParse == InitParse /\ [][CallParseTimestamps]_vars

---------------------------------------------------------------------------
(* Properties of parseTimestamps.                                          *)

ParseReturned == lpc = "returned" /\ args.fn = "parseTimestamps"

IsPlainText(raw) == ~startsWith(trim(raw), "{\\rtf")

\* The entries before deduplication.
ParsedItems == ParseLines(CandidateLines(args.timestampsRaw), args.keepEmoji)

SameLabel(a, b) == toLowerCase(a.label) = toLowerCase(b.label)

\* The keep-first policy: an entry is dropped exactly when its label
\* equals that of the last entry kept so far.
RECURSIVE KeepFirstOfRuns(_, _)
KeepFirstOfRuns(items, kept) ==
    IF items = <<>> THEN kept
    ELSE IF kept # <<>> /\ SameLabel(items[1], kept[Len(kept)])
         THEN KeepFirstOfRuns(Tail(items), kept)
         ELSE KeepFirstOfRuns(Tail(items), Append(kept, items[1]))

\* C1: with deduplication enabled the result is the keep-first policy applied
\* to the parsed entries (an entry is dropped exactly when its label equals,
\* case-insensitively, that of the immediately preceding kept entry), no two
\* adjacent output entries have equal labels, and an entry whose label differs
\* from its predecessor's survives, so equal labels that are not adjacent
\* both survive.
C1_DedupKeepsFirstOfEachRun ==
    (ParseReturned /\ args.collapseConsecutiveDuplicateLabels) =>
        LET items == ParsedItems
            out == ret.items
        IN /\ out = KeepFirstOfRuns(items, <<>>)
           /\ \A k \in 1..(Len(out) - 1) : ~SameLabel(out[k], out[k + 1])
           /\ Len(out) = Cardinality({i \in 1..Len(items) :
                                i = 1 \/ ~SameLabel(items[i], items[i - 1])})

\* C1 witness: three entries were parsed, the second repeats the label of the
\* first and was dropped, the third has another label and was kept.
W_C1_RunCollapsed ==
    /\ ParseReturned
    /\ args.collapseConsecutiveDuplicateLabels
    /\ Len(ParsedItems) = 3
    /\ SameLabel(ParsedItems[1], ParsedItems[2])
    /\ ~SameLabel(ParsedItems[2], ParsedItems[3])
    /\ ret.items = <<ParsedItems[1], ParsedItems[3]>>

\* A clock pattern, stated on its own: every M:SS, MM:SS, H:MM:SS or HH:MM:SS
\* token holds a digit, a colon and two digits in a row, and such a run is a
\* clock pattern.
HasClockPattern(line) ==
    \E i \in 1..(Len(line) - 3) :
        /\ IsDigit(Char(line, i))
        /\ Char(line, i + 1) = ":"
        /\ IsDigit(Char(line, i + 2))
        /\ IsDigit(Char(line, i + 3))

TimedLineNumbers(lines) == {i \in 1..Len(lines) : HasClockPattern(lines[i])}

\* The k-th smallest member of a set of numbers.
Nth(set, k) == CHOOSE i \in set : Cardinality({j \in set : j <= i}) = k

\* C2: with deduplication disabled and plain input the result holds exactly
\* one entry per source line that contains a clock pattern, the k-th entry
\* being that of the k-th such line (source order, nothing sorted), and so
\* it is empty when no line contains a clock pattern.
C2_OneEntryPerTimedLineInOrder ==
    (/\ ParseReturned
     /\ ~args.collapseConsecutiveDuplicateLabels
     /\ IsPlainText(args.timestampsRaw)) =>
        LET lines == SplitLines(args.timestampsRaw)
            timed == TimedLineNumbers(lines)
        IN /\ Len(ret.items) = Cardinality(timed)
           /\ \A k \in 1..Len(ret.items) :
                <<ret.items[k]>> = ParseLine(trim(lines[Nth(timed, k)]),
                                             args.keepEmoji)

\* C2 witness: three source lines, one of them without a clock pattern, the
\* other two with equal labels and times out of order, and both were returned.
W_C2_UntimedLineSkipped ==
    /\ ParseReturned
    /\ ~args.collapseConsecutiveDuplicateLabels
    /\ IsPlainText(args.timestampsRaw)
    /\ Len(SplitLines(args.timestampsRaw)) = 3
    /\ Cardinality(TimedLineNumbers(SplitLines(args.timestampsRaw))) = 2
    /\ Len(ret.items) = 2
    /\ SameLabel(ret.items[1], ret.items[2])
    /\ ret.items[1].seconds > ret.items[2].seconds

\* A time string read back as a clock value.
ReadClock(time) ==
    LET f == SplitOn(time, ":")
    IN IF Len(f) = 3
       THEN DigitsValue(f[1]) * 3600 + DigitsValue(f[2]) * 60 + DigitsValue(f[3])
       ELSE DigitsValue(f[1]) * 60 + DigitsValue(f[2])

AllDigits(s) == s # "" /\ \A i \in 1..Len(s) : IsDigit(Char(s, i))

\* "m:SS": minutes without padding, seconds on two digits.
IsMSS(time, m, s) ==
    LET f == SplitOn(time, ":")
    IN /\ Len(f) = 2
       /\ AllDigits(f[1]) /\ DigitsValue(f[1]) = m
       /\ (Len(f[1]) = 1 \/ Char(f[1], 1) # "0")
       /\ AllDigits(f[2]) /\ Len(f[2]) = 2 /\ DigitsValue(f[2]) = s

\* "h:MM:SS": hours without padding, minutes and seconds on two digits.
IsHMMSS(time, h, m, s) ==
    LET f == SplitOn(time, ":")
    IN /\ Len(f) = 3
       /\ AllDigits(f[1]) /\ DigitsValue(f[1]) = h /\ Char(f[1], 1) # "0"
       /\ AllDigits(f[2]) /\ Len(f[2]) = 2 /\ DigitsValue(f[2]) = m
       /\ AllDigits(f[3]) /\ Len(f[3]) = 2 /\ DigitsValue(f[3]) = s

\* C3: every entry comes from a candidate line whose matched components h
\* (0 when absent), m and s give seconds = h*3600 + m*60 + s without range
\* validation, time "m:SS" when h = 0 and "h:MM:SS" when h > 0, and the time
\* string read back as a clock value gives the entry's seconds.
C3_SecondsDecomposeTime ==
    ParseReturned =>
        /\ \A k \in 1..Len(ret.items) :
              /\ ReadClock(ret.items[k].time) = ret.items[k].seconds
              /\ \E j \in 1..Len(CandidateLines(args.timestampsRaw)) :
                    LET line == ReplaceSpaceRuns(
                                    CandidateLines(args.timestampsRaw)[j], " ")
                        c == extractHMS(TIME_FINDER(line))
                    IN /\ TIME_FINDER(line).found
                       /\ ret.items[k].seconds = c.h * 3600 + c.m * 60 + c.s
                       /\ c.h = 0 => IsMSS(ret.items[k].time, c.m, c.s)
                       /\ c.h > 0 => IsHMMSS(ret.items[k].time, c.h, c.m, c.s)
        /\ args.timestampsRaw = "1:02:03 Intro" =>
              ret.items = <<[time |-> "1:02:03", seconds |-> 3723,
                             label |-> "Intro"]>>
        /\ args.timestampsRaw = "99:99" =>
              /\ Len(ret.items) = 1
              /\ ret.items[1].time = "99:99"
              /\ ret.items[1].seconds = 6039

\* C3 witness: an entry with an hour field was returned, its minutes and
\* seconds both padded.
W_C3_HourEntry ==
    /\ ParseReturned
    /\ Len(ret.items) = 1
    /\ ret.items[1].time = "1:02:03"
    /\ ret.items[1].seconds = 3723

\* Text that holds nothing but separators, whitespace and (when emoji are
\* stripped) emoji, or nothing but trailing punctuation and whitespace.
CleansToNothing(text, keepEmoji) ==
    \/ \A i \in 1..Len(text) :
          \/ Char(text, i) \in LeadingSeparators \cup Spaces
          \/ ~keepEmoji /\ Char(text, i) \in EmojiChars
    \/ \A i \in 1..Len(text) :
          Char(text, i) \in {":", ";", ",", ".", "!", "?", "-"} \cup Spaces

\* The text after the first time token of a line.
TextAfterTime(raw) ==
    LET line == ReplaceSpaceRuns(raw, " ")
        m == TIME_FINDER(line)
    IN From(line, m.index + Len(m.text))

\* C4: every returned entry has a non-empty, non-blank label, and an entry
\* whose text after the time token is empty or cleans to nothing is labelled
\* with the placeholder "Segment".
C4_LabelNeverEmpty ==
    ParseReturned =>
        /\ \A k \in 1..Len(ret.items) : trim(ret.items[k].label) # ""
        /\ \A k \in 1..Len(ParsedItems) :
              LET line == CandidateLines(args.timestampsRaw)[
                              Nth(TimedLineNumbers(
                                      CandidateLines(args.timestampsRaw)), k)]
              IN CleansToNothing(TextAfterTime(line), args.keepEmoji) =>
                    ParsedItems[k].label = "Segment"

\* C4 witness: a line whose text after the time is not empty but cleans to
\* nothing was parsed, and its entry was returned with the placeholder.
W_C4_PlaceholderLabel ==
    /\ ParseReturned
    /\ Len(CandidateLines(args.timestampsRaw)) = 1
    /\ TIME_FINDER(args.timestampsRaw).found
    /\ Len(TextAfterTime(args.timestampsRaw)) >= 2
    /\ Len(ret.items) = 1
    /\ ret.items[1].label = "Segment"

---------------------------------------------------------------------------
(* Tag synthesis: generateTags (src/src/utils.js), buildTags               *)
(* (src/src/generator.js).                                                 *)

\* .slice(0, 15)
TagCap == 15

\* Set.prototype.add on an insertion-ordered Set, kept as a sequence.
SetAdd(set, x) ==
    IF \E i \in 1..Len(set) : set[i] = x THEN set ELSE Append(set, x)

RECURSIVE SetAddAll(_, _)
SetAddAll(set, xs) ==
    IF xs = <<>> THEN set ELSE SetAddAll(SetAdd(set, xs[1]), Tail(xs))

\* [A-Za-z0-9+]: what the title is NOT split on.
IsTokenChar(c) == IsIn(c, Lower) \/ IsIn(c, Upper) \/ IsDigit(c) \/ c = "+"

RECURSIVE TokenRun(_)
TokenRun(s) ==
    IF s # "" /\ IsTokenChar(Char(s, 1)) THEN 1 + TokenRun(From(s, 2)) ELSE 0

\* title.split(/[^A-Za-z0-9+]+/).filter(Boolean)
RECURSIVE SplitTokens(_)
SplitTokens(s) ==
    LET starts == {i \in 1..Len(s) : IsTokenChar(Char(s, i))}
        i == CHOOSE j \in starts : \A k \in starts : j <= k
        n == TokenRun(From(s, i))
    IN IF starts = {} THEN <<>>
       ELSE <<SubSeq(s, i, i + n - 1)>> \o SplitTokens(From(s, i + n))

\* The title tokens longer than two characters, lower-cased.
RECURSIVE TitleCandidates(_)
TitleCandidates(tokens) ==
    IF tokens = <<>> THEN <<>>
    ELSE (IF Len(tokens[1]) > 2 THEN <<toLowerCase(tokens[1])>> ELSE <<>>)
         \o TitleCandidates(Tail(tokens))

\* guests.map(g => g.trim().toLowerCase()).filter(Boolean)
GuestCandidates(guests) ==
    FilterNonEmpty([i \in 1..Len(guests) |-> toLowerCase(trim(guests[i]))])

AnchorTags == <<"podcast", "interview", "australia", "brisbane">>

\* Array.prototype.slice(0, n)
Slice0(xs, n) == SubSeq(xs, 1, IF Len(xs) < n THEN Len(xs) ELSE n)

Hashtags(tags) == Join([i \in 1..Len(tags) |-> "#" \o tags[i]], " ")

generateTags(title, theme, guests) ==
    LET b1 == SetAddAll(<<>>, TitleCandidates(SplitTokens(title)))
        b2 == IF theme # "" THEN SetAdd(b1, toLowerCase(theme)) ELSE b1
        b3 == SetAddAll(b2, GuestCandidates(guests))
        base == SetAddAll(b3, AnchorTags)
        capped == Slice0(base, TagCap)
        tags == [i \in 1..Len(capped) |-> ReplaceSpaceRuns(capped[i], "")]
    IN [tags |-> tags, hashtags |-> Hashtags(tags)]

\* s.split(",").map(x => x.trim())
SplitCsvTrimmed(s) ==
    LET parts == SplitOn(s, ",") IN [i \in 1..Len(parts) |-> trim(parts[i])]

\* buildTags({ brandName, hosts, guest, summary, seo }): summary is taken
\* and never read.
buildTags(brandName, hosts, guest, summary, seo) ==
    LET baseGuests == IF guest # ""
                      THEN FilterNonEmpty(SplitCsvTrimmed(guest))
                      ELSE <<>>
        title == trim(brandName \o " "
                      \o (IF guest # "" THEN "with " \o guest ELSE ""))
        theme == trim(seo.mainKeyword)
        gen == generateTags(title, theme, baseGuests)
        hostTags == IF hosts # ""
                    THEN LET hs == SplitCsvTrimmed(hosts)
                         IN [i \in 1..Len(hs) |-> toLowerCase(hs[i])]
                    ELSE <<>>
        extra == FilterNonEmpty(<<toLowerCase(brandName)>> \o hostTags)
        merged == SetAddAll(<<>>, gen.tags \o
                      [i \in 1..Len(extra) |-> ReplaceSpaceRuns(extra[i], "")])
    IN [tags |-> merged, hashtags |-> Hashtags(merged)]

---------------------------------------------------------------------------
(* Calls of generateTags and buildTags on bounded inputs.                  *)

GuestPool == <<"Jane Doe", "Al Fox", "Mikhaela Cann", " Bo ">>

\* The lists of at most max members of pool, in pool order.
Lists(pool, max) ==
    {[k \in 1..Cardinality(ps) |-> pool[Nth(ps, k)]] :
        ps \in {q \in SUBSET (1..Len(pool)) : Cardinality(q) <= max}}

GenerateTagsArgs ==
    [fn : {"generateTags"},
     title : {"", "The Searchers Podcast with Jane Doe", "AI + Hoops: Q&A on the NBA",
              "How one coach built two clubs from three small towns across four long seasons"},
     theme : {"", "janedoe", "Mental Health"},
     guests : Lists(GuestPool, MaxGuests)]

BuildTagsArgs ==
    {[fn |-> "buildTags", brandName |-> b, hosts |-> Join(h, ", "),
      guest |-> Join(g, ", "), summary |-> s, seo |-> seo] :
        b \in {"The Searchers Podcast", "AI Hoops"},
        h \in Lists(<<"Atem Bior", "Kirron Byrne", "jane doe">>, MaxHosts),
        g \in Lists(GuestPool, MaxGuests),
        s \in {"", "A conversation about basketball and parenting."},
        seo \in [mainKeyword : {"", "janedoe", " Basketball "},
                 keyTakeaways : {""}]}

InitTags ==
    /\ args \in GenerateTagsArgs \cup BuildTagsArgs
    /\ ret = NoValue
    /\ lpc = "call"
    /\ CliAtRest

CallGenerateTags ==
    /\ lpc = "call"
    /\ args.fn = "generateTags"
    /\ ret' = generateTags(args.title, args.theme, args.guests)
    /\ lpc' = "returned"
    /\ UNCHANGED <<args, clivars>>

CallBuildTags ==
    /\ lpc = "call"
    /\ args.fn = "buildTags"
    /\ ret' = buildTags(args.brandName, args.hosts, args.guest,
                        args.summary, args.seo)
    /\ lpc' = "returned"
    /\ UNCHANGED <<args, clivars>>

NextTags == CallGenerateTags \/ CallBuildTags

SpecTags == InitTags /\ [][NextTags]_vars

GenerateTagsReturned == lpc = "returned" /\ args.fn = "generateTags"

BuildTagsReturned == lpc = "returned" /\ args.fn = "buildTags"

\* C5: the tag list buildTags returns never has more than 15 entries.
C5_FinalTagListWithinCap ==
    BuildTagsReturned => Len(ret.tags) <= TagCap

HasNoSpace(s) == \A i \in 1..Len(s) : ~IsSpace(Char(s, i))

\* C6: the list generateTags returns is a TagSet: every token is lower-case
\* and whitespace-free, and no two tokens are equal case-insensitively.
C6_GenerateTagsIsTagSet ==
    GenerateTagsReturned =>
        /\ \A i \in 1..Len(ret.tags) :
              ret.tags[i] = toLowerCase(ret.tags[i]) /\ HasNoSpace(ret.tags[i])
        /\ \A i, j \in 1..Len(ret.tags) :
              i # j => toLowerCase(ret.tags[i]) # toLowerCase(ret.tags[j])

\* C7: the list generateTags returns contains the four baseline anchor tags.
C7_AnchorsAlwaysPresent ==
    GenerateTagsReturned =>
        \A a \in 1..Len(AnchorTags) :
            \E i \in 1..Len(ret.tags) : ret.tags[i] = AnchorTags[a]

---------------------------------------------------------------------------
(* The Markdown renderer (src/src/generator.js).                           *)
(*                                                                         *)
(* A JavaScript value that may be missing is a record: a string, undefined *)
(* or a thrown TypeError.                                                  *)

Undefined == [t |-> "undefined", v |-> ""]

Str(s) == [t |-> "string", v |-> s]

TypeError == [t |-> "throw", v |-> "TypeError"]

IsUndefined(x) == x.t = "undefined"

Threw(x) == x.t = "throw"

\* A default of a parameter or of a destructuring pattern: x = d.
OrDefault(x, d) == IF IsUndefined(x) THEN Str(d) ELSE x

\* ${x} in a template literal.
Interpolate(x) == IF IsUndefined(x) THEN "undefined" ELSE x.v

\* s.replace(/([*_B])/g, "\\$1"), B the backtick.
escapeMD(s) ==
    Concat([i \in 1..Len(s) |->
               (IF Char(s, i) \in {"*", "_", Backtick} THEN "\\" ELSE "")
               \o Char(s, i)], 1, Len(s))

\* An ensureSentence without the default of its parameter: s.trim() on
\* undefined throws.
ensureSentenceWithoutDefault(s) ==
    LET t == ReplaceSpaceRuns(trim(s.v), " ")
    IN IF IsUndefined(s) THEN TypeError
       ELSE IF t = "" THEN Str("")
       ELSE IF Char(t, Len(t)) \in {".", "!", "?", Ellipsis} THEN Str(t)
       ELSE Str(t \o ".")

\* ensureSentence(s = "")
ensureSentence(s) ==
    LET t == ReplaceSpaceRuns(trim(OrDefault(s, "").v), " ")
    IN IF t = "" THEN Str("")
       ELSE IF Char(t, Len(t)) \in {".", "!", "?", Ellipsis} THEN Str(t)
       ELSE Str(t \o ".")

\* The separators of normaliseBullets: a line break, a comma, a middle dot,
\* a bullet, an em dash, one or two hyphens.  The length of the separator
\* that starts s, or 0.
BulletSeparatorAt(s) ==
    IF s = "" THEN 0
    ELSE IF startsWith(s, "\r\n") THEN 2
    ELSE IF Char(s, 1) \in {"\n", ",", MidDot, Bullet, EmDash} THEN 1
    ELSE IF startsWith(s, "--") THEN 2
    ELSE IF Char(s, 1) = "-" THEN 1
    ELSE 0

\* raw.split(separator): the piece before the first separator, then the rest.
RECURSIVE SplitBullets(_)
SplitBullets(s) ==
    LET seps == {i \in 1..Len(s) : BulletSeparatorAt(From(s, i)) > 0}
        i == CHOOSE j \in seps : \A k \in seps : j <= k
    IN IF seps = {} THEN <<s>>
       ELSE <<SubSeq(s, 1, i - 1)>>
            \o SplitBullets(From(s, i + BulletSeparatorAt(From(s, i))))

normaliseBullets(raw) ==
    LET parts == SplitBullets(raw)
    IN Slice0(FilterNonEmpty([i \in 1..Len(parts) |->
                  toSentenceCasePreserveAcronyms(trim(parts[i]))]), 5)

buildDescription(summary, hosts, guest, brandName, seo) ==
    LET cleanSummary == ensureSentence(summary)
        hostLine == IF hosts # "" THEN "Hosted by **" \o hosts \o "**" ELSE ""
        guestLine == IF guest # ""
                     THEN (IF hostLine # ""
                           THEN " with **" \o guest \o "**"
                           ELSE "Featuring **" \o guest \o "**")
                     ELSE ""
        first == trim("In this episode of **" \o brandName \o "**, "
                      \o Join(FilterNonEmpty(<<hostLine, guestLine>>), " "))
        lines == FilterNonEmpty(<<first, cleanSummary.v>>)
        bullets == normaliseBullets(seo.keyTakeaways)
        takeaways == "**Key Takeaways:**\n"
                     \o Join([i \in 1..Len(bullets) |-> "- " \o bullets[i]], "\n")
    IN IF Threw(cleanSummary) THEN TypeError
       ELSE IF seo.keyTakeaways # "" /\ bullets # <<>>
       THEN Str(Join(Append(lines, takeaways), "\n\n"))
       ELSE Str(Join(lines, "\n\n"))

renderChapters(chapters) ==
    IF chapters = <<>> THEN "_No timestamps provided._"
    ELSE Join([i \in 1..Len(chapters) |->
                  "- " \o chapters[i].time \o " " \o EmDash \o " "
                  \o escapeMD(chapters[i].label)], "\n")

PlatformRows ==
    <<[name |-> "YouTube", key |-> "youtube"],
      [name |-> "Spotify", key |-> "spotify"],
      [name |-> "Apple Podcasts", key |-> "apple"],
      [name |-> "RSS", key |-> "anchor"],
      [name |-> "Instagram", key |-> "instagram"],
      [name |-> "TikTok", key |-> "tiktok"],
      [name |-> "Facebook", key |-> "facebook"],
      [name |-> "Patreon", key |-> "patreon"]>>

\* A link map gives every platform key a URL; "" is a missing one.
renderPlatforms(links) ==
    LET rows == FilterNonEmpty([i \in 1..Len(PlatformRows) |->
                    IF links[PlatformRows[i].key] # ""
                    THEN PlatformRows[i].name \o ": " \o links[PlatformRows[i].key]
                    ELSE ""])
    IN IF rows = <<>> THEN "_Links coming soon._" ELSE Join(rows, "\n")

capitalize(s) == IF s = "" THEN s ELSE UpperChar(Char(s, 1)) \o From(s, 2)

CtaOrder ==
    <<"youtube", "spotify", "apple", "patreon", "instagram", "tiktok",
      "facebook", "anchor">>

appendCTA(description, cta, links) ==
    LET linkLines == FilterNonEmpty([i \in 1..Len(CtaOrder) |->
                        IF links[CtaOrder[i]] # ""
                        THEN capitalize(CtaOrder[i]) \o ": " \o links[CtaOrder[i]]
                        ELSE ""])
    IN Join(FilterNonEmpty(<<trim(description), "",
                             IF cta # "" THEN Emoji \o " " \o cta ELSE "",
                             Join(linkLines, "\n")>>), "\n")

\* summaryToPhrase(s = "", wordLimit = 10)
summaryToPhrase(s, wordLimit) ==
    LET words == Slice0(FilterNonEmpty(SplitOn(
                     trim(ReplaceSpaceRuns(OrDefault(s, "").v, " ")), " ")),
                     wordLimit)
    IN toSentenceCasePreserveAcronyms(Join(words, " "))

TitleWords == 10

autoTitle(summary, guest, brandName) ==
    LET first == summaryToPhrase(summary, TitleWords)
    IN Join(FilterNonEmpty(<<first,
                             IF guest # "" THEN "with " \o guest ELSE "",
                             brandName>>), " | ")

DefaultBrandName == "The Searchers Podcast"

\* generateEpisodeMarkdown(p): the record p holds title, guest, hosts,
\* brandName, cta, summary and timestampsRaw as values that may be undefined,
\* and links, keepEmoji and seo.
generateEpisodeMarkdown(p) ==
    LET guest == OrDefault(p.guest, "").v
        hosts == OrDefault(p.hosts, "").v
        brandName == OrDefault(p.brandName, DefaultBrandName).v
        cta == OrDefault(p.cta, "").v
        chapters == parseTimestamps(p.timestampsRaw.v, p.keepEmoji, TRUE)
        resolvedTitle == IF ~IsUndefined(p.title) /\ trim(p.title.v) # ""
                         THEN trim(p.title.v)
                         ELSE autoTitle(p.summary, guest, brandName)
        descriptionBody == buildDescription(p.summary, hosts, guest, brandName,
                                            p.seo)
        tagged == buildTags(brandName, hosts, guest, p.summary, p.seo)
        withCTA == appendCTA(renderPlatforms(p.links), cta, p.links)
    IN IF IsUndefined(p.timestampsRaw) \/ Threw(descriptionBody) THEN TypeError
       ELSE Str(Join(FilterNonEmpty(<<
                "## " \o Emoji \o " **" \o escapeMD(resolvedTitle) \o "**",
                "## " \o Emoji \o " Episode Description\n" \o descriptionBody.v,
                "## " \o Emoji \o " Chapters",
                renderChapters(chapters),
                "## " \o Emoji \o " Listen & Subscribe",
                withCTA,
                "## " \o Emoji \o " Tags",
                Join(tagged.tags, ", "),
                "## " \o Emoji \o " Hashtags",
                tagged.hashtags>>), "\n\n"))

---------------------------------------------------------------------------
(* Calls of generateEpisodeMarkdown on bounded inputs.                     *)

PlatformKeys ==
    {"youtube", "spotify", "apple", "anchor", "instagram", "tiktok",
     "facebook", "patreon"}

NoLinks == [k \in PlatformKeys |-> ""]

SomeLinks ==
    [k \in PlatformKeys |->
        IF k = "spotify" THEN "https://spoti.fy/s"
        ELSE IF k = "apple" THEN "https://apple.co/a"
        ELSE ""]

NoSeo == [mainKeyword |-> "", keyTakeaways |-> ""]

FullSeo == [mainKeyword |-> "Basketball",
            keyTakeaways |-> "focus, ai tools -- rest"]

RenderArgs ==
    [fn : {"generateEpisodeMarkdown"},
     title : {Undefined, Str("Hoops *live*")},
     guest : {Undefined, Str(""), Str("Jane Doe")},
     hosts : {Undefined, Str(""), Str("Atem Bior, Kirron Byrne")},
     brandName : {Undefined, Str("AI Hoops")},
     cta : {Undefined, Str("Subscribe now")},
     summary : {Undefined, Str(""),
                Str("A conversation about basketball and parenting."),
                Str("the nba  finals and a few more words that run past the ten word limit")},
     timestampsRaw : {Str("0:00 Intro\n1:30 Discussion"), Str("no times")},
     links : {NoLinks, SomeLinks},
     keepEmoji : {FALSE},
     seo : {NoSeo, FullSeo}]

InitRender ==
    /\ args \in RenderArgs
    /\ ret = NoValue
    /\ lpc = "call"
    /\ CliAtRest

CallGenerateEpisodeMarkdown ==
    /\ lpc = "call"
    /\ args.fn = "generateEpisodeMarkdown"
    /\ ret' = generateEpisodeMarkdown(args)
    /\ lpc' = "returned"
    /\ UNCHANGED <<args, clivars>>

SpecRender == InitRender /\ [][CallGenerateEpisodeMarkdown]_vars

RenderReturned == lpc = "returned" /\ args.fn = "generateEpisodeMarkdown"

\* The text between a section heading and the next blank line.
SectionBody(md, heading) ==
    LET h == "## " \o Emoji \o " " \o heading \o "\n\n"
        rest == From(md, indexOf(md, h) + Len(h))
        e == indexOf(rest, "\n\n")
    IN IF e = 0 THEN rest ELSE SubSeq(rest, 1, e - 1)

\* C8: whenever the summary contains the keyword "basketball", the Tags
\* section of the rendered Markdown includes the tag "basketball".
C8_SummaryKeywordBecomesTag ==
    (/\ RenderReturned
     /\ ~Threw(ret)
     /\ includes(toLowerCase(Interpolate(args.summary)), "basketball")) =>
        includes(SectionBody(ret.v, "Tags"), "basketball")

EmptyOrOmitted(x) == IsUndefined(x) \/ x = Str("")

\* C9: a call with a valid timestamps string returns a document without
\* throwing, and the text holds no literal "undefined"; when guest is empty
\* or omitted no guest phrasing is rendered, when hosts is empty or omitted no
\* host phrasing is rendered (so with guest, hosts and summary all empty or
\* omitted neither is).
C9_EmptyFieldsRenderCleanly ==
    RenderReturned =>
        /\ ~Threw(ret)
        /\ ~includes(ret.v, "undefined")
        /\ EmptyOrOmitted(args.guest) =>
              /\ ~includes(ret.v, "Featuring")
              /\ ~includes(ret.v, "with **")
              /\ ~includes(ret.v, "| with")
        /\ EmptyOrOmitted(args.hosts) => ~includes(ret.v, "Hosted by")

\* C9 witness: guest, hosts, summary and title all omitted, and a document
\* with the description line and the brand as its title was returned.
W_C9_AllOmitted ==
    /\ RenderReturned
    /\ IsUndefined(args.guest) /\ IsUndefined(args.hosts)
    /\ IsUndefined(args.summary) /\ IsUndefined(args.title)
    /\ IsUndefined(args.brandName)
    /\ ~Threw(ret)
    /\ startsWith(ret.v, "## " \o Emoji \o " **The Searchers Podcast**\n\n")
    /\ includes(ret.v, "In this episode of **The Searchers Podcast**,\n\n")

---------------------------------------------------------------------------
(* The command-line program bin/searchers-episode.js.                      *)
(* A run reads the options commander parsed, the brand configuration and  *)
(* the timestamps, and writes to stdout, stderr and files.  Paths are     *)
(* resolved against the working directory /cwd; the package is installed  *)
(* in /pkg.                                                                *)

Null == [t |-> "null", v |-> ""]

Bool(b) == [t |-> "boolean", v |-> IF b THEN "true" ELSE "false"]

\* ToBoolean of a value of the run.
Truthy(x) ==
    CASE x.t = "string" -> x.v # ""
      [] x.t = "boolean" -> x.v = "true"
      [] x.t \in {"undefined", "null"} -> FALSE
      [] OTHER -> TRUE

\* opts.key: a key commander did not define reads as undefined.
OptsGet(o, key) == IF key \in DOMAIN o THEN o[key] ELSE Undefined

PkgBrandsPath == "/pkg/config/brands.json"

CwdBrandsPath == "/cwd/config/brands.json"

ExplicitBrandsPath == "my/brands.json"

\* The parsed content of brands.json: one entry, under the key "searchers".
BrandsJson ==
    [t |-> "object",
     v |-> [searchers |->
              [t |-> "object",
               v |-> [brandName |-> "The Searchers Podcast",
                      hosts |-> <<"Atem Bior", "Kirron Byrne">>,
                      cta |-> "Subscribe now",
                      links |-> SomeLinks]]]]

\* Members every object parsed from JSON inherits from Object.prototype.
ObjectPrototypeMembers ==
    {"constructor", "toString", "valueOf", "hasOwnProperty", "isPrototypeOf",
     "propertyIsEnumerable", "toLocaleString", "__proto__"}

\* obj[key]: an own property, else a member inherited from Object.prototype,
\* else undefined.
GetProperty(obj, key) ==
    IF key \in DOMAIN obj.v THEN obj.v[key]
    ELSE IF key \in ObjectPrototypeMembers THEN [t |-> "inherited", v |-> key]
    ELSE Undefined

\* brand.field of the looked-up brand, "" standing for undefined.
BrandField(b, field, absent) ==
    IF b.t = "object" /\ field \in DOMAIN b.v THEN b.v[field] ELSE absent

\* loadBrands(explicitPath): the first candidate path that reads and parses.
loadBrands(explicitPath, fsys) ==
    LET candidatePaths == IF Truthy(explicitPath) THEN <<explicitPath.v>>
                          ELSE <<PkgBrandsPath, CwdBrandsPath>>
        loadable == {i \in DOMAIN candidatePaths :
                        candidatePaths[i] \in fsys.brandFiles}
    IN IF loadable = {} THEN [json |-> Null, path |-> Null]
       ELSE LET i == CHOOSE j \in loadable : \A k \in loadable : j <= k
            IN [json |-> BrandsJson, path |-> Str(candidatePaths[i])]

\* coerceCSV(val)
coerceCSV(val) ==
    FilterNonEmpty(SplitCsvTrimmed(IF Truthy(val) THEN val.v ELSE ""))

IsSlugChar(c) == IsWordChar(c) \/ IsSpace(c) \/ c = "-"

\* One "-" for each run of "-".
CollapseHyphens(s) ==
    Concat([i \in 1..Len(s) |->
               IF Char(s, i) = "-" /\ i > 1 /\ Char(s, i - 1) = "-" THEN ""
               ELSE Char(s, i)], 1, Len(s))

\* slugify(s) of the command-line program.
slugify(s) ==
    LET kept == Concat([i \in 1..Len(s) |->
                           IF IsSlugChar(Char(toLowerCase(s), i))
                           THEN Char(toLowerCase(s), i) ELSE ""], 1, Len(s))
    IN CollapseHyphens(ReplaceSpaceRuns(trim(kept), "-"))

\* path.resolve(p): absolute, without a trailing separator.
Resolve(p) ==
    LET abs == IF startsWith(p, "/") THEN p ELSE "/cwd/" \o p
    IN IF Len(abs) > 1 /\ Char(abs, Len(abs)) = "/"
       THEN SubSeq(abs, 1, Len(abs) - 1) ELSE abs

\* path.join(dir, name)
PathJoin(dir, name) ==
    IF Char(dir, Len(dir)) = "/" THEN dir \o name ELSE dir \o "/" \o name

Summaries1 == {Str("A conversation about basketball and parenting.")}

\* Command lines that vary what the run validates; a destination is named in
\* half of them.
ValidationRuns ==
    [brand : {Str("searchers"), Str("ghost"), Str("constructor")},
     brandsFile : {Undefined, Str(ExplicitBrandsPath)},
     title : {Undefined},
     guests : {Undefined},
     hosts : {Undefined},
     summary : {Undefined} \cup Summaries1,
     timestampsFile : {Undefined, Str("-"), Str("ts.txt"), Str("gone.txt")},
     keepEmoji : {Bool(FALSE)},
     seo : {Bool(TRUE), Bool(FALSE)},
     out : {Undefined, Str("notes.md")},
     outDir : {Undefined},
     autoName : {Bool(FALSE)},
     format : {Str("md")},
     dryRun : {Bool(FALSE)}]

\* Command lines that vary what goes into the documents.
ContentRuns ==
    [brand : {Str("searchers"), Str("constructor")},
     brandsFile : {Undefined},
     title : {Undefined, Str("Hoops Night")},
     guests : {Undefined, Str("Jane Doe, Al Fox")},
     hosts : {Undefined, Str("Sam Lee")},
     summary : Summaries1,
     timestampsFile : {Str("-"), Str("ts.txt")},
     keepEmoji : {Bool(FALSE)},
     seo : {Bool(TRUE), Bool(FALSE)},
     out : {Undefined},
     outDir : {Undefined},
     autoName : {Bool(FALSE)},
     format : {Str("md"), Str("json"), Str("both")},
     dryRun : {Bool(FALSE)}]

\* Command lines that vary where the documents go.
OutputRuns ==
    [brand : {Str("searchers")},
     brandsFile : {Undefined},
     title : {Undefined, Str("Hoops Night")},
     guests : {Str("Jane Doe, Al Fox")},
     hosts : {Undefined},
     summary : Summaries1,
     timestampsFile : {Str("ts.txt")},
     keepEmoji : {Bool(FALSE)},
     seo : {Bool(FALSE)},
     out : {Undefined, Str("notes.md"), Str("outdir"), Str("newdir/")},
     outDir : {Undefined, Str("dist")},
     autoName : {Bool(TRUE), Bool(FALSE)},
     format : {Str("md"), Str("json"), Str("both")},
     dryRun : {Bool(TRUE), Bool(FALSE)}]

\* The command lines of the runs: program.opts() after parsing.
CommandLines == ValidationRuns \cup ContentRuns \cup OutputRuns

\* The file systems of the runs: where a brands.json that parses is found,
\* the timestamps files, the text on standard input, the directories that
\* exist, and the date.
FileSystems ==
    [brandFiles : {{}, {CwdBrandsPath}, {ExplicitBrandsPath}},
     files : {[f \in {"ts.txt"} |-> "0:00 Intro\n1:30 Discussion"]},
     stdin : {"(0:10) Start"},
     dirs : {{"/cwd/outdir"}},
     today : {"2026-11-01"}]

NoLocals ==
    [brands |-> Undefined, brandsPath |-> Undefined, brand |-> Undefined,
     timestampsRaw |-> Undefined, seoDetails |-> Undefined,
     payload |-> Undefined, slug |-> Undefined, md |-> Undefined,
     jsonOut |-> Undefined]

Init ==
    /\ opts \in CommandLines
    /\ env \in FileSystems
    /\ pc = "loadBrands"
    /\ locals = NoLocals
    /\ prompted = FALSE
    /\ generated = 0
    /\ stdout = <<>>
    /\ stderr = <<>>
    /\ files = {}
    /\ dirs = {}
    /\ exitCode = NotExited
    /\ args = Idle
    /\ ret = NoValue
    /\ lpc = "idle"

\* console.error(msg); process.exit(code)
Exit(code, msg) ==
    /\ stderr' = Append(stderr, msg)
    /\ exitCode' = code
    /\ pc' = "exited"

\* lines 85-89: load the brand configuration, or leave with status 1.
LoadBrands ==
    /\ pc = "loadBrands"
    /\ LET loaded == loadBrands(opts.brandsFile, env)
       IN /\ locals' = [locals EXCEPT !.brands = loaded.json,
                                      !.brandsPath = loaded.path]
          /\ IF ~Truthy(loaded.json)
             THEN Exit(1, "No brands.json found. Provide --brands-file or create config/brands.json.")
             ELSE /\ pc' = "lookupBrand"
                  /\ UNCHANGED <<stderr, exitCode>>
    /\ UNCHANGED <<opts, env, prompted, generated, stdout, files, dirs, libvars>>

\* lines 90-94: brands[opts.brand], or leave with status 1.
LookupBrand ==
    /\ pc = "lookupBrand"
    /\ LET found == GetProperty(locals.brands, opts.brand.v)
       IN /\ locals' = [locals EXCEPT !.brand = found]
          /\ IF ~Truthy(found)
             THEN Exit(1, "Brand '" \o opts.brand.v \o "' not found in "
                            \o locals.brandsPath.v \o ".")
             ELSE /\ pc' = "checkSummary"
                  /\ UNCHANGED <<stderr, exitCode>>
    /\ UNCHANGED <<opts, env, prompted, generated, stdout, files, dirs, libvars>>

\* line 98
CheckSummary ==
    /\ pc = "checkSummary"
    /\ IF ~Truthy(opts.summary)
       THEN Exit(1, "Error: --summary is required.")
       ELSE /\ pc' = "checkTimestampsFile"
            /\ UNCHANGED <<stderr, exitCode>>
    /\ UNCHANGED <<opts, env, locals, prompted, generated, stdout, files, dirs,
                   libvars>>

\* line 99
CheckTimestampsFile ==
    /\ pc = "checkTimestampsFile"
    /\ IF ~Truthy(opts.timestampsFile)
       THEN Exit(1, "Error: --timestamps-file is required.")
       ELSE /\ pc' = "readTimestamps"
            /\ UNCHANGED <<stderr, exitCode>>
    /\ UNCHANGED <<opts, env, locals, prompted, generated, stdout, files, dirs,
                   libvars>>

\* lines 102-117: the timestamps, from standard input or from the file.
ReadTimestamps ==
    /\ pc = "readTimestamps"
    /\ IF opts.timestampsFile.v \in {"-", "/dev/stdin"}
       THEN /\ locals' = [locals EXCEPT !.timestampsRaw = Str(env.stdin)]
            /\ pc' = "seoDetails"
            /\ UNCHANGED <<stderr, exitCode>>
       ELSE IF opts.timestampsFile.v \notin DOMAIN env.files
       THEN /\ Exit(1, "Error: timestamps file not found: "
                         \o opts.timestampsFile.v)
            /\ UNCHANGED locals
       ELSE /\ locals' = [locals EXCEPT !.timestampsRaw =
                                          Str(env.files[opts.timestampsFile.v])]
            /\ pc' = "seoDetails"
            /\ UNCHANGED <<stderr, exitCode>>
    /\ UNCHANGED <<opts, env, prompted, generated, stdout, files, dirs, libvars>>

\* line 120, with --seo: the prompt is shown and the operator answers.
PromptForSEODetails ==
    /\ pc = "seoDetails"
    /\ Truthy(opts.seo)
    /\ \E answers \in {NoSeo, FullSeo} :
          locals' = [locals EXCEPT !.seoDetails = answers]
    /\ prompted' = TRUE
    /\ pc' = "payload"
    /\ UNCHANGED <<opts, env, generated, stdout, stderr, files, dirs, exitCode,
                   libvars>>

\* line 120, with --no-seo: seoDetails is {}.
SkipSEODetails ==
    /\ pc = "seoDetails"
    /\ ~Truthy(opts.seo)
    /\ locals' = [locals EXCEPT !.seoDetails = NoSeo]
    /\ pc' = "payload"
    /\ UNCHANGED <<opts, env, prompted, generated, stdout, stderr, files, dirs,
                   exitCode, libvars>>

\* lines 123-135: the brand's links; commander defines no option that
\* overrides one.
AssembleLinks(b) ==
    LET brandLinks == BrandField(b, "links", NoLinks)
    IN [k \in PlatformKeys |->
           IF Truthy(OptsGet(opts, k)) THEN OptsGet(opts, k).v
           ELSE brandLinks[k]]

\* lines 138-157: the request for the generator.
Payload ==
    LET b == locals.brand
        guestsArr == coerceCSV(opts.guests)
        hostsArr == IF Truthy(opts.hosts) THEN coerceCSV(opts.hosts)
                    ELSE BrandField(b, "hosts", <<>>)
        title == IF Truthy(opts.title) THEN opts.title.v
                 ELSE IF Len(guestsArr) > 0
                      THEN guestsArr[1] \o " " \o EmDash \o " Conversation"
                      ELSE "New Episode"
        brandName == BrandField(b, "brandName", "")
    IN [title |-> Str(title),
        guest |-> Str(Join(guestsArr, ", ")),
        hosts |-> Str(Join(hostsArr, ", ")),
        brandName |-> Str(IF brandName # "" THEN brandName ELSE opts.brand.v),
        summary |-> opts.summary,
        timestampsRaw |-> locals.timestampsRaw,
        links |-> AssembleLinks(b),
        keepEmoji |-> Truthy(opts.keepEmoji),
        cta |-> Str(BrandField(b, "cta", "")),
        seo |-> locals.seoDetails]

\* JSON.stringify({ ...payload, rendered: { md } }): the document, as the
\* object a reader parses back from the text.
JsonDocument(payload, md) ==
    [t |-> "json", v |-> [payload |-> payload, rendered |-> [md |-> md]]]

\* lines 123-157: links, guests, hosts, title, slug and payload.
BuildPayload ==
    /\ pc = "payload"
    /\ locals' = [locals EXCEPT !.payload = Payload,
                                !.slug = Str(slugify(Payload.title.v))]
    /\ pc' = "generate"
    /\ UNCHANGED <<opts, env, prompted, generated, stdout, stderr, files, dirs,
                   exitCode, libvars>>

\* lines 160-166: md and jsonOut.  An exception of the generator rejects
\* main, and the catch handler (lines 229-232) leaves with status 1.
Generate ==
    /\ pc = "generate"
    /\ \E md \in {IF opts.format.v \in {"md", "both"}
                  THEN generateEpisodeMarkdown(locals.payload) ELSE Null} :
          IF Threw(md)
          THEN /\ Exit(1, "Unhandled error: " \o md.v)
               /\ UNCHANGED locals
          ELSE /\ locals' = [locals EXCEPT
                                !.md = md,
                                !.jsonOut = IF opts.format.v \in {"json", "both"}
                                            THEN JsonDocument(locals.payload, md)
                                            ELSE Null]
               /\ pc' = "output"
               /\ UNCHANGED <<stderr, exitCode>>
    /\ generated' = IF opts.format.v \in {"md", "both"} THEN generated + 1
                    ELSE generated
    /\ UNCHANGED <<opts, env, prompted, stdout, files, dirs, libvars>>

\* line 169: commander stores --dry-run under dryRun; the test reads dry_run.
StdoutSelected ==
    \/ Truthy(OptsGet(opts, "dry_run"))
    \/ (~Truthy(opts.out) /\ ~Truthy(opts.autoName) /\ ~Truthy(opts.outDir))

\* line 177
BaseName == env.today \o "_" \o locals.slug.v

endsWith(s, suffix) ==
    Len(s) >= Len(suffix) /\ From(s, Len(s) - Len(suffix) + 1) = suffix

DefaultOutDir == "/cwd/output"

WroteLine(path) == Str(Emoji \o " Wrote " \o path \o "\n")

\* ensureDir(dir): mkdir -p creates the directory unless it exists.
EnsureDir(dir) == dirs' = dirs \cup ({Resolve(dir)} \ env.dirs)

\* The paths, in writing order, of the documents that exist, in directory dir.
FileTargets(dir) ==
    (IF Truthy(locals.md) THEN <<PathJoin(dir, BaseName \o ".md")>> ELSE <<>>)
    \o (IF Truthy(locals.jsonOut) THEN <<PathJoin(dir, BaseName \o ".json")>>
        ELSE <<>>)

\* fs.writeFile of each target, and the line logged after it.
WriteTargets(targets) ==
    /\ files' = files \cup
          {[path |-> Resolve(targets[i]),
            content |-> IF endsWith(targets[i], ".md") THEN locals.md
                        ELSE locals.jsonOut] : i \in DOMAIN targets}
    /\ stdout' = stdout \o [i \in DOMAIN targets |->
                               WroteLine(Resolve(targets[i]))]

\* main returns and the process ends with status 0.
Return ==
    /\ pc' = "done"
    /\ exitCode' = 0

\* lines 169-174: no destination: the documents go to standard output.
PrintToStdout ==
    /\ pc = "output"
    /\ StdoutSelected
    /\ stdout' = stdout
          \o (IF Truthy(locals.md) THEN <<Str(locals.md.v \o "\n")>> ELSE <<>>)
          \o (IF Truthy(locals.jsonOut) THEN <<locals.jsonOut>> ELSE <<>>)
    /\ Return
    /\ UNCHANGED <<opts, env, locals, prompted, generated, stderr, files, dirs,
                   libvars>>

\* lines 178-187: --auto-name without --out.
WriteAutoNamed ==
    /\ pc = "output"
    /\ ~StdoutSelected
    /\ Truthy(opts.autoName) /\ ~Truthy(opts.out)
    /\ LET outDir == IF Truthy(opts.outDir) THEN opts.outDir.v
                     ELSE DefaultOutDir
       IN /\ EnsureDir(outDir)
          /\ WriteTargets(FileTargets(outDir))
    /\ Return
    /\ UNCHANGED <<opts, env, locals, prompted, generated, stderr, libvars>>

\* lines 189-192
OutIsDir ==
    LET outPath == Resolve(opts.out.v)
    IN endsWith(outPath, "/") \/ outPath \in env.dirs

\* lines 194-205: --out names a directory.
WriteIntoOutDirectory ==
    /\ pc = "output"
    /\ ~StdoutSelected
    /\ Truthy(opts.out)
    /\ OutIsDir
    /\ EnsureDir(Resolve(opts.out.v))
    /\ WriteTargets(FileTargets(Resolve(opts.out.v)))
    /\ Return
    /\ UNCHANGED <<opts, env, locals, prompted, generated, stderr, libvars>>

\* lines 206-211: --out names a file: one write, of md ?? jsonOut ?? "".
WriteOutFile ==
    /\ pc = "output"
    /\ ~StdoutSelected
    /\ Truthy(opts.out)
    /\ ~OutIsDir
    /\ LET outPath == Resolve(opts.out.v)
           content == IF locals.md.t \notin {"null", "undefined"} THEN locals.md
                      ELSE IF locals.jsonOut.t \notin {"null", "undefined"}
                           THEN locals.jsonOut
                           ELSE Str("")
       IN /\ files' = files \cup {[path |-> outPath, content |-> content]}
          /\ stdout' = Append(stdout, WroteLine(outPath))
    /\ Return
    /\ UNCHANGED <<opts, env, locals, prompted, generated, stderr, dirs, libvars>>

\* lines 212-226: --out-dir alone.
WriteIntoOutDir ==
    /\ pc = "output"
    /\ ~StdoutSelected
    /\ ~Truthy(opts.autoName) /\ ~Truthy(opts.out)
    /\ LET outDir == IF Truthy(opts.outDir) THEN opts.outDir.v
                     ELSE DefaultOutDir
       IN /\ EnsureDir(outDir)
          /\ WriteTargets(FileTargets(outDir))
    /\ Return
    /\ UNCHANGED <<opts, env, locals, prompted, generated, stderr, libvars>>

Next ==
    \/ LoadBrands
    \/ LookupBrand
    \/ CheckSummary
    \/ CheckTimestampsFile
    \/ ReadTimestamps
    \/ PromptForSEODetails
    \/ SkipSEODetails
    \/ BuildPayload
    \/ Generate
    \/ PrintToStdout
    \/ WriteAutoNamed
    \/ WriteIntoOutDirectory
    \/ WriteOutFile
    \/ WriteIntoOutDir

Spec == Init /\ [][Next]_vars

---------------------------------------------------------------------------
(* Properties of a command-line run.                                       *)

BrandsLoadable == Truthy(loadBrands(opts.brandsFile, env).json)

BrandHasEntry == opts.brand.v \in DOMAIN BrandsJson.v

NamesMissingFile ==
    /\ Truthy(opts.timestampsFile)
    /\ opts.timestampsFile.v \notin {"-", "/dev/stdin"}
    /\ opts.timestampsFile.v \notin DOMAIN env.files

UserError ==
    \/ ~BrandsLoadable
    \/ ~BrandHasEntry
    \/ ~Truthy(opts.summary)
    \/ ~Truthy(opts.timestampsFile)
    \/ NamesMissingFile

\* C10: in a run in which the brand configuration cannot be loaded, the
\* --brand key has no entry in it, --summary or --timestamps-file is missing,
\* or the named timestamps file does not exist, the run never gets past the
\* reading of the inputs, it ends only with status 1, and no SEO prompt has
\* been shown, generateEpisodeMarkdown has not been called, and nothing has
\* been written to a file or to standard output.
C10_UserErrorExitsBeforeAnyWork ==
    (pc # "none" /\ UserError) =>
        /\ pc \in {"loadBrands", "lookupBrand", "checkSummary",
                   "checkTimestampsFile", "readTimestamps", "exited"}
        /\ pc = "exited" => exitCode = 1
        /\ ~prompted
        /\ generated = 0
        /\ files = {}
        /\ stdout = <<>>

\* The JSON documents the run has emitted, on standard output or in a file.
EmittedJson ==
    {stdout[i] : i \in {j \in DOMAIN stdout : stdout[j].t = "json"}}
    \cup {f.content : f \in {g \in files : g.content.t = "json"}}

\* C11: every JSON document the run emits (--format json or --format both)
\* holds the payload fields and, under rendered.md, the rendered Markdown of
\* the episode as a string, never null.
C11_JsonHoldsRenderedMarkdown ==
    \A d \in EmittedJson :
        /\ d.v.payload = locals.payload
        /\ d.v.rendered.md.t = "string"
        /\ d.v.rendered.md.v # ""

\* The run is over and left through the end of main.
RunDone == pc = "done"

\* Two values of the run are the same document: equal types, then equal
\* content.
SameDocument(a, b) == a.t = b.t /\ a.v = b.v

\* The documents the chosen format asks for have been printed.
PrintedDocuments ==
    /\ Truthy(locals.md) =>
          \E i \in DOMAIN stdout :
              SameDocument(stdout[i], Str(locals.md.v \o "\n"))
    /\ Truthy(locals.jsonOut) =>
          \E i \in DOMAIN stdout : SameDocument(stdout[i], locals.jsonOut)

\* C12: in a run with --dry-run the result is printed to standard output and
\* no file or directory is created or written, whatever --out, --out-dir and
\* --auto-name are.
C12_DryRunWritesNothing ==
    (pc # "none" /\ Truthy(opts.dryRun)) =>
        /\ files = {}
        /\ dirs = {}
        /\ RunDone => PrintedDocuments

\* The title a document opens with: the text between "## <glyph> **" and the
\* "**" that ends the first line.
TitleOf(doc) ==
    LET e == indexOf(doc, "**\n\n")
    IN SubSeq(doc, Len("## " \o Emoji \o " **") + 1, e - 1)

\* C13: in a run that renders Markdown, the title is the one --title gives;
\* without --title it is derived from the summary: its first words (at most
\* 10) sentence-cased, then "with <guest>" when a guest is given, then the
\* brand name.
C13_TitleGivenOrDerivedFromSummary ==
    (pc \in {"output", "done"} /\ locals.md.t = "string") =>
        TitleOf(locals.md.v) =
            IF Truthy(opts.title) THEN escapeMD(trim(opts.title.v))
            ELSE escapeMD(autoTitle(opts.summary, locals.payload.guest.v,
                                    locals.payload.brandName.v))

\* The run names a destination: --out, --auto-name or --out-dir.
NamesDestination ==
    Truthy(opts.out) \/ Truthy(opts.autoName) \/ Truthy(opts.outDir)

\* C14: a finished run with --format both that names a destination (and is
\* not a dry run) has persisted both documents: the Markdown and the JSON.
C14_BothDocumentsPersisted ==
    (/\ RunDone
     /\ opts.format.v = "both"
     /\ NamesDestination
     /\ ~Truthy(opts.dryRun)) =>
        /\ \E f \in files : SameDocument(f.content, locals.md)
        /\ \E f \in files : SameDocument(f.content, locals.jsonOut)

\* The number of places of s where sub starts.
Occurrences(s, sub) ==
    Cardinality({i \in 1..(Len(s) - Len(sub) + 1) :
                    SubSeq(s, i, i + Len(sub) - 1) = sub})

\* C15: in the "Listen & Subscribe" section of the returned Markdown, every
\* platform link with a non-empty URL is listed exactly once, and the
\* placeholder "_Links coming soon._" is there exactly when no platform link
\* has a non-empty URL.
C15_EachLinkListedOnce ==
    (RenderReturned /\ ~Threw(ret)) =>
        LET section == SectionBody(ret.v, "Listen & Subscribe")
        IN /\ \A k \in PlatformKeys :
                 args.links[k] # "" => Occurrences(section, args.links[k]) = 1
           /\ includes(section, "_Links coming soon._")
                 <=> (\A k \in PlatformKeys : args.links[k] = "")

=============================================================================
